---------------------------- MODULE Spec2Model ----------------------------
(***************************************************************************)
(* One run of the git-submodule dependency submission action:              *)
(*   main (src/src/index.ts) and its helpers (src/unnamed/part_001):       *)
(*   parseSubmoduleManifest, processSubmoduleTag, processSubmodule,        *)
(*   processSubmoduleUrls, processSubmoduleCache.                          *)
(* Strings are TLC strings; the JavaScript string methods the code uses    *)
(* (includes, split, trim) are computed character by character.            *)
(***************************************************************************)
EXTENDS Naturals, Sequences, FiniteSets, TLC

(***************************************************************************)
(* JavaScript string methods                                               *)
(***************************************************************************)

\* s.charAt(i - 1)
Char(s, i) == SubSeq(s, i, i)

\* s.includes(sub)
Includes(s, sub) ==
    \E i \in 1..(Len(s) + 1) :
        /\ i + Len(sub) - 1 <= Len(s)
        /\ SubSeq(s, i, i + Len(sub) - 1) = sub

\* the positions of the separator character in s
SepPositions(s, sep) == {i \in 1..Len(s) : Char(s, i) = sep}

\* the k-th smallest element of a set of positions
KthPosition(P, k) == CHOOSE i \in P : Cardinality({j \in P : j < i}) = k - 1

\* s.split(sep) for a one-character separator: the pieces between the
\* separators, always at least one piece ("".split(sep) is [""])
Split(s, sep) ==
    LET P == SepPositions(s, sep)
        n == Cardinality(P)
        first(k) == IF k = 1 THEN 1 ELSE KthPosition(P, k - 1) + 1
        last(k)  == IF k = n + 1 THEN Len(s) ELSE KthPosition(P, k) - 1
    IN  [k \in 1..(n + 1) |-> SubSeq(s, first(k), last(k))]

IsSpace(c) == c \in {" ", "\t", "\n", "\r"}

RECURSIVE TrimStart(_)
TrimStart(s) ==
    IF Len(s) > 0 /\ IsSpace(Char(s, 1)) THEN TrimStart(Tail(s)) ELSE s

RECURSIVE TrimEnd(_)
TrimEnd(s) ==
    IF Len(s) > 0 /\ IsSpace(Char(s, Len(s)))
    THEN TrimEnd(SubSeq(s, 1, Len(s) - 1))
    ELSE s

\* s.trim()
Trim(s) == TrimEnd(TrimStart(s))

\* strs.join(sep)
RECURSIVE JoinStrings(_, _)
JoinStrings(strs, sep) ==
    IF strs = <<>> THEN ""
    ELSE IF Len(strs) = 1 THEN strs[1]
    ELSE strs[1] \o sep \o JoinStrings(Tail(strs), sep)


(***************************************************************************)
(* Inputs of one run: the action's inputs, the manifest file, the          *)
(* submodule working trees git is run in, and the exec collaborator.       *)
(***************************************************************************)

\* most submodule sections of a manifest
MaxSections == 3

\* A section of the manifest file. path = "" or url = "" stands for a
\* section without that line.
Section(name, path, url, urlFirst, branch) ==
    [name |-> name, path |-> path, url |-> url,
     urlFirst |-> urlFirst, branch |-> branch]

\* The lines of one section as git writes them to .gitmodules
SectionLines(sec) ==
    LET header == <<"[submodule \"" \o sec.name \o "\"]">>
        pathL  == IF sec.path = "" THEN <<>> ELSE <<"\tpath = " \o sec.path>>
        urlL   == IF sec.url = "" THEN <<>> ELSE <<"\turl = " \o sec.url>>
        extraL == IF sec.branch THEN <<"\tbranch = main">> ELSE <<>>
    IN  header \o (IF sec.urlFirst THEN urlL \o pathL ELSE pathL \o urlL)
               \o extraL

RECURSIVE ManifestLinesOf(_)
ManifestLinesOf(secs) ==
    IF secs = <<>> THEN <<>>
    ELSE SectionLines(Head(secs)) \o ManifestLinesOf(Tail(secs))

\* The text of the manifest file: every line ends with a newline
ManifestText(secs) == JoinStrings(ManifestLinesOf(secs) \o <<"">>, "\n")

Complete(sec) == sec.name # "" /\ sec.path # "" /\ sec.url # ""

DepA == Section("dep-a", "libs/dep-a", "https://github.com/org/dep-a.git",
                FALSE, FALSE)
DepB == Section("dep-b", "libs/dep-b", "https://github.com/org/dep-b", FALSE,
                FALSE)
DepJs == Section("dep.js", "ext/c", "https://github.com/org/dep.js.git",
                 FALSE, FALSE)
DepLab == Section("dep-c", "ext/c", "https://gitlab.com/org/dep-c.git", FALSE,
                  FALSE)
DepShort == Section("dep-d", "ext/c", "https://gitlab.com/org", FALSE, FALSE)

\* the scp-like form of a url of another host
DepSsh == Section("dep-e", "ext/c", "git@gitlab.com:org/dep-e.git", FALSE,
                  FALSE)

\* a second checkout of the repository of DepA, at the same tag
DepAVendored == Section("vendor-a", "vendor/dep-a",
                        "https://github.com/org/dep-a.git", FALSE, FALSE)

\* the ways a section of the catalogue is written: lines in either order,
\* an additional key, or one of the two lines missing
Variants(sec) ==
    { sec,
      [sec EXCEPT !.urlFirst = TRUE],
      [sec EXCEPT !.branch = TRUE],
      [sec EXCEPT !.path = ""],
      [sec EXCEPT !.url = ""] }

\* the manifests of at most n sections of S; the names of the sections of
\* a manifest are unique
SeqsUpTo(S, n) ==
    { secs \in UNION {[1..m -> S] : m \in 0..n} :
        \A a, b \in DOMAIN secs : secs[a].name = secs[b].name => a = b }

Paths == {"libs/dep-a", "libs/dep-b", "ext/c", "vendor/dep-a"}

\* What git finds in a submodule's working tree:
\*   tagged   - a tag is reachable from HEAD
\*   untagged - no tag is reachable, HEAD exists
\*   broken   - not a git checkout (git submodule update was not run)
\*   silent   - git describe ends with status 0 and prints nothing
WorktreeKinds == {"tagged", "untagged", "broken", "silent"}

AllTagged == [p \in Paths |-> "tagged"]

Scenario(manifest, exists, secs, worktrees, reject, devDeps) ==
    [manifest |-> manifest, exists |-> exists, sections |-> secs,
     worktrees |-> worktrees, rejectOnNonZero |-> reject,
     developmentDeps |-> devDeps]

\* manifests of every shape, working trees all tagged
ParserScenarios ==
    { Scenario(".gitmodules", TRUE, secs, AllTagged, TRUE, "") :
        secs \in SeqsUpTo(Variants(DepA) \cup Variants(DepB)
                            \cup Variants(DepJs), MaxSections) }

\* the manifest input: missing, misnamed, in a directory
ManifestScenarios ==
    { Scenario(m, e, <<DepA>>, AllTagged, TRUE, "") :
        m \in {"", ".gitmodules", "sub/.gitmodules", "gitmodules"},
        e \in BOOLEAN }

\* working trees of every kind, the exec collaborator of either kind
ResolverScenarios ==
    { Scenario(".gitmodules", TRUE, secs, w, r, "") :
        secs \in SeqsUpTo({DepA, DepB, DepJs}, MaxSections),
        w \in { [p \in Paths |-> IF p = "libs/dep-a" THEN ka
                                 ELSE IF p = "libs/dep-b" THEN kb
                                 ELSE IF p = "ext/c" THEN kc
                                 ELSE "tagged"] :
                   ka \in WorktreeKinds, kb \in WorktreeKinds,
                   kc \in WorktreeKinds },
        r \in BOOLEAN }

\* urls of other hosts and shapes
BuilderScenarios ==
    { Scenario(".gitmodules", TRUE, secs, AllTagged, TRUE, "") :
        secs \in SeqsUpTo({DepA, DepLab, DepShort, DepSsh}, MaxSections) }

\* the development-deps input
ScopeScenarios ==
    { Scenario(".gitmodules", TRUE, secs, AllTagged, TRUE, d) :
        secs \in SeqsUpTo({DepA, DepB, DepJs, DepAVendored}, MaxSections),
        d \in {"dep-a", "dep-b,dep-a", "dep-ab", "dep"} }

Scenarios ==
    ParserScenarios \cup ManifestScenarios \cup ResolverScenarios
        \cup BuilderScenarios \cup ScopeScenarios

(***************************************************************************)
(* State                                                                   *)
(***************************************************************************)

VARIABLES
    env,            \* the inputs of the run (never changes)
    pc,             \* where main is
    error,          \* what main was rejected with ("" while none)
    manifestLines,  \* parseSubmoduleManifest: manifestLines
    i,              \* parseSubmoduleManifest: the loop index i
    submodule,      \* parseSubmoduleManifest: the record being filled
    submodules,     \* parseSubmoduleManifest: submodules / main: submoduleList
    tasks,          \* the calls of processSubmoduleTag, one per record
    arrival,        \* the calls in the order they were fulfilled
    purls,          \* main: purls
    modulesCache,   \* main: modulesCache (PackageCache: key -> package)
    k,              \* main: the index of purls.forEach
    manifest,       \* main: manifest (Manifest.resolved: key -> dependency)
    submitted       \* the snapshots handed to submitSnapshot

vars == <<env, pc, error, manifestLines, i, submodule, submodules, tasks,
          arrival, purls, modulesCache, k, manifest, submitted>>

parseVars == <<manifestLines, i, submodule>>
mainVars == <<purls, modulesCache, k, manifest, submitted>>

\* type Submodule, as the parser initializes it
EmptySubmodule == [name |-> "", path |-> "", url |-> "", tag |-> ""]

Init ==
    /\ env \in Scenarios
    /\ pc = "start"
    /\ error = ""
    /\ manifestLines = <<>>
    /\ i = 0
    /\ submodule = EmptySubmodule
    /\ submodules = <<>>
    /\ tasks = <<>>
    /\ arrival = <<>>
    /\ purls = <<>>
    /\ modulesCache = <<>>
    /\ k = 0
    /\ manifest = <<>>
    /\ submitted = <<>>

(***************************************************************************)
(* parseSubmoduleManifest: the file check and the line loop                *)
(***************************************************************************)

\* path.normalize, for paths without ".", ".." and doubled separators
Normalize(p) == IF p = "" THEN "." ELSE p

\* path.basename, for paths that do not end with a separator
Basename(p) == LET parts == Split(p, "/") IN parts[Len(parts)]

\* the test of lines 142-143
IsManifest(p, exists) == Basename(Normalize(p)) = ".gitmodules" /\ exists

\* fs.readFileSync(manifestPath, 'utf8')
ReadFile == ManifestText(env.sections)

\* main was rejected: nothing of main runs after it
Throw(err) == pc' = "aborted" /\ error' = err

ManifestNotFound ==
    /\ pc = "start"
    /\ ~IsManifest(env.manifest, env.exists)
    /\ Throw("ManifestNotFound")
    /\ UNCHANGED <<env, parseVars, submodules, tasks, arrival, mainVars>>

ReadManifest ==
    /\ pc = "start"
    /\ IsManifest(env.manifest, env.exists)
    /\ manifestLines' = Split(ReadFile, "\n")
    /\ pc' = "parse"
    /\ UNCHANGED <<env, error, i, submodule, submodules, tasks, arrival,
                   mainVars>>

\* lines 158-168: the field a line sets in the record being filled
ScanLine(sub, line) ==
    IF sub.name = "" /\ Includes(line, "submodule \"")
    THEN [sub EXCEPT !.name = Split(line, "\"")[2]]
    ELSE IF sub.path = "" /\ Includes(line, "path =")
    THEN [sub EXCEPT !.path = Trim(Split(line, "=")[2])]
    ELSE IF sub.url = "" /\ Includes(line, "url =")
    THEN [sub EXCEPT !.url = Trim(Split(line, "=")[2])]
    ELSE sub

\* lines 171-172 without the test of the url
AllInformation_NoUrl(sub) == sub.name # "" /\ sub.path # ""

\* lines 171-172
AllInformation(sub) == sub.name # "" /\ sub.path # "" /\ sub.url # ""

\* one turn of the loop of lines 155-182
ParseLine ==
    /\ pc = "parse"
    /\ i < Len(manifestLines)
    /\ LET sub == ScanLine(submodule, manifestLines[i + 1])
       IN  IF AllInformation(sub)
           THEN /\ submodules' = Append(submodules, sub)
                /\ submodule' = EmptySubmodule
           ELSE /\ submodules' = submodules
                /\ submodule' = sub
    /\ i' = i + 1
    /\ UNCHANGED <<env, pc, error, manifestLines, tasks, arrival, mainVars>>

(***************************************************************************)
(* processSubmoduleTag: one call per record, all awaited by Promise.all    *)
(***************************************************************************)

\* the output of `git describe --tags` in a tagged working tree
TagOf(cwd) ==
    IF cwd \in {"libs/dep-a", "vendor/dep-a"} THEN "v1.2.3\n"
    ELSE IF cwd = "libs/dep-b" THEN "v2.0-4-g1a2b3c4\n"
    ELSE "v0.9\n"

\* the output of `git rev-parse --short HEAD`
ShaOf(cwd) ==
    IF cwd \in {"libs/dep-a", "vendor/dep-a"} THEN "a1a1a1a\n"
    ELSE IF cwd = "libs/dep-b" THEN "b2b2b2b\n"
    ELSE "c3c3c3c\n"

\* the git process: its exit status and standard output
Git(cmd, cwd) ==
    LET kind == env.worktrees[cwd]
    IN  IF cmd = "describe"
        THEN IF kind = "tagged" THEN [exitCode |-> 0, stdout |-> TagOf(cwd)]
             ELSE IF kind = "silent" THEN [exitCode |-> 0, stdout |-> ""]
             ELSE [exitCode |-> 128, stdout |-> ""]
        ELSE IF kind = "broken" THEN [exitCode |-> 128, stdout |-> ""]
             ELSE [exitCode |-> 0, stdout |-> ShaOf(cwd)]

\* exec.getExecOutput('git', args, {cwd}): how the awaited promise settles.
\* Neither call passes ignoreReturnCode; an exec collaborator that rejects
\* on a non-zero exit status (env.rejectOnNonZero) makes the await throw.
GetExecOutputRejects(out) == out.exitCode # 0 /\ env.rejectOnNonZero

\* lines 31-39: the call runs up to its first await
StartTask(sub) ==
    [state |-> "describe", cwd |-> Normalize(sub.path), execs |-> <<>>,
     stdout |-> ""]

\* lines 185-187: submodules.map starts every call, Promise.all awaits them
Dispatch ==
    /\ pc = "parse"
    /\ i = Len(manifestLines)
    /\ tasks' = [j \in 1..Len(submodules) |-> StartTask(submodules[j])]
    /\ pc' = "await"
    /\ UNCHANGED <<env, error, parseVars, submodules, arrival, mainVars>>

Ran(task, cmd, out) ==
    Append(task.execs, [cmd |-> cmd, exitCode |-> out.exitCode])

\* a call of processSubmoduleTag is rejected: Promise.all is rejected with
\* the first rejection, and the await of line 186 throws into main
RejectTask(j, task, err) ==
    /\ tasks' = [tasks EXCEPT ![j] = [task EXCEPT !.state = "rejected"]]
    /\ IF pc = "await" THEN Throw(err) ELSE UNCHANGED <<pc, error>>
    /\ UNCHANGED arrival

\* lines 57-59
FulfilTask(j, task, out) ==
    /\ tasks' = [tasks EXCEPT ![j] =
                    [task EXCEPT !.state = "fulfilled", !.stdout = out.stdout]]
    /\ arrival' = Append(arrival, j)
    /\ UNCHANGED <<pc, error>>

\* lines 35-41: `git describe --tags` has ended
DescribeExit(j) ==
    /\ tasks[j].state = "describe"
    /\ LET out  == Git("describe", tasks[j].cwd)
           task == [tasks[j] EXCEPT !.execs = Ran(tasks[j], "describe", out)]
       IN  IF GetExecOutputRejects(out)
           THEN RejectTask(j, task, "ExecRejected")
           ELSE IF out.exitCode # 0
           THEN /\ tasks' = [tasks EXCEPT ![j] =
                                [task EXCEPT !.state = "rev-parse"]]
                /\ UNCHANGED <<pc, error, arrival>>
           ELSE FulfilTask(j, task, out)
    /\ UNCHANGED <<env, parseVars, submodules, mainVars>>

\* lines 43-55: `git rev-parse --short HEAD` has ended
RevParseExit(j) ==
    /\ tasks[j].state = "rev-parse"
    /\ LET out  == Git("rev-parse", tasks[j].cwd)
           task == [tasks[j] EXCEPT !.execs = Ran(tasks[j], "rev-parse", out)]
       IN  IF GetExecOutputRejects(out)
           THEN RejectTask(j, task, "ExecRejected")
           ELSE IF out.exitCode # 0
           THEN RejectTask(j, task, "VersionResolutionFailed")
           ELSE FulfilTask(j, task, out)
    /\ UNCHANGED <<env, parseVars, submodules, mainVars>>

\* a join that returns with the first fulfilled promise (Promise.any)
AllFulfilled_Any(ts) == \E j \in DOMAIN ts : ts[j].state = "fulfilled"

\* Promise.all is fulfilled when every promise is
AllFulfilled(ts) == \A j \in DOMAIN ts : ts[j].state = "fulfilled"

\* the values in the order the promises were fulfilled
PromiseAllValues_ByArrival(ts, order) ==
    [j \in DOMAIN ts |-> IF j \in DOMAIN order THEN ts[order[j]].stdout
                         ELSE ""]

\* the value of Promise.all: the values of the promises in the order of
\* the promises (not of their settlement)
PromiseAllValues(ts, order) == [j \in DOMAIN ts |-> ts[j].stdout]

\* lines 190-192: tags.forEach((tag, index) => submodules[index].tag = tag)
WriteTags(subs, tags) ==
    [j \in DOMAIN subs |->
        IF j \in DOMAIN tags THEN [subs[j] EXCEPT !.tag = tags[j]]
        ELSE subs[j]]

\* lines 185-194: the await of Promise.all returns, the tags are written
\* and parseSubmoduleManifest returns to main
Join ==
    /\ pc = "await"
    /\ AllFulfilled(tasks)
    /\ submodules' = WriteTags(submodules, PromiseAllValues(tasks, arrival))
    /\ pc' = "purls"
    /\ UNCHANGED <<env, error, parseVars, tasks, arrival, mainVars>>

(***************************************************************************)
(* processSubmodule, processSubmoduleUrls, processSubmoduleCache           *)
(***************************************************************************)

NoPurl == [type |-> "", namespace |-> "", name |-> "", version |-> ""]

Thrown(err) == [error |-> err, purl |-> NoPurl]

\* new PackageURL(type, namespace, name, version, null, null), for a type
\* and a name that are not empty
PackageURL(type, namespace, name, version) ==
    [type |-> type, namespace |-> namespace, name |-> name,
     version |-> version]

\* lines 66-92. An index past the end of an array is undefined, and
\* undefined.split of line 79 is a TypeError.
processSubmodule(sub) ==
    IF sub.name = "" \/ sub.path = "" \/ sub.url = "" \/ sub.tag = ""
    THEN Thrown("IncompleteSubmodule")
    ELSE LET parts == Split(sub.url, "/")
         IN  IF Len(parts) < 5
             THEN Thrown("TypeError")
             ELSE LET type      == parts[3]
                      namespace == parts[4]
                      name      == Split(parts[5], ".")[1]
                  IN  IF type # "github.com"
                      THEN Thrown("UnsupportedHost")
                      ELSE [error |-> "",
                            purl  |-> PackageURL(Split(type, ".")[1],
                                                 namespace, name, sub.tag)]

\* lines 102-104: the purls of the records, up to the first that throws
RECURSIVE PushPurls(_)
PushPurls(subs) ==
    IF subs = <<>> THEN [error |-> "", purls |-> <<>>]
    ELSE LET first == processSubmodule(Head(subs))
             rest  == PushPurls(Tail(subs))
         IN  IF first.error # "" THEN [error |-> first.error, purls |-> <<>>]
             ELSE IF rest.error # "" THEN rest
             ELSE [error |-> "", purls |-> <<first.purl>> \o rest.purls]

\* a loop that stops one record early
processSubmoduleUrls_SkipLast(subs) ==
    PushPurls(SubSeq(subs, 1, Len(subs) - 1))

\* lines 97-107
processSubmoduleUrls(subs) == PushPurls(subs)

\* purl.toString(), the key of PackageCache and of Manifest.resolved
PurlKey(purl) ==
    "pkg:" \o purl.type \o "/" \o purl.namespace \o "/" \o purl.name
           \o "@" \o purl.version

\* PackageCache.package(purl): the package of the key, added when absent
CachePackage(cache, purl) ==
    IF PurlKey(purl) \in DOMAIN cache THEN cache
    ELSE [key \in DOMAIN cache \cup {PurlKey(purl)} |->
            IF key = PurlKey(purl) THEN purl ELSE cache[key]]

\* lines 116-118
RECURSIVE CacheAll(_, _)
CacheAll(cache, subs) ==
    IF subs = <<>> THEN [error |-> "", cache |-> cache]
    ELSE LET first == processSubmodule(Head(subs))
         IN  IF first.error # "" THEN [error |-> first.error, cache |-> <<>>]
             ELSE CacheAll(CachePackage(cache, first.purl), Tail(subs))

\* a cache created anew for every record: only the last one is kept
processSubmoduleCache_LastOnly(subs) ==
    IF subs = <<>> THEN CacheAll(<<>>, subs)
    ELSE CacheAll(<<>>, <<subs[Len(subs)]>>)

\* lines 112-121
processSubmoduleCache(subs) == CacheAll(<<>>, subs)

(***************************************************************************)
(* main                                                                    *)
(***************************************************************************)

\* line 29
ProcessUrls ==
    /\ pc = "purls"
    /\ LET r == processSubmoduleUrls(submodules)
       IN  IF r.error # ""
           THEN Throw(r.error) /\ UNCHANGED purls
           ELSE purls' = r.purls /\ pc' = "cache" /\ UNCHANGED error
    /\ UNCHANGED <<env, parseVars, submodules, tasks, arrival, modulesCache,
                   k, manifest, submitted>>

\* line 30
BuildCache ==
    /\ pc = "cache"
    /\ LET r == processSubmoduleCache(submodules)
       IN  IF r.error # ""
           THEN Throw(r.error) /\ UNCHANGED modulesCache
           ELSE modulesCache' = r.cache /\ pc' = "forEach"
                /\ UNCHANGED error
    /\ UNCHANGED <<env, parseVars, submodules, tasks, arrival, purls, k,
                   manifest, submitted>>

\* modulesCache.lookupPackage(purl) finds a package
Found(cache, purl) == PurlKey(purl) \in DOMAIN cache

\* lines 45-48, for a dependency of the given name
ScopeOf(developmentDeps, name) ==
    IF Includes(developmentDeps, name) THEN "development" ELSE "runtime"

\* manifest.addDirectDependency(dep, scope)
AddDirectDependency(resolved, dep, scope) ==
    [key \in DOMAIN resolved \cup {PurlKey(dep)} |->
        IF key = PurlKey(dep) THEN [package |-> dep, scope |-> scope]
        ELSE resolved[key]]

\* lines 34-52: one call of the callback of purls.forEach
ForEachPurl ==
    /\ pc = "forEach"
    /\ k < Len(purls)
    /\ LET purl == purls[k + 1]
       IN  IF ~Found(modulesCache, purl)
           THEN Throw("AssertionFailed") /\ UNCHANGED <<k, manifest>>
           ELSE LET dep == modulesCache[PurlKey(purl)]
                IN  /\ manifest' =
                          AddDirectDependency(manifest, dep,
                              ScopeOf(env.developmentDeps, dep.name))
                    /\ k' = k + 1
                    /\ UNCHANGED <<pc, error>>
    /\ UNCHANGED <<env, parseVars, submodules, tasks, arrival, purls,
                   modulesCache, submitted>>

\* lines 54-62
Submit ==
    /\ pc = "forEach"
    /\ k = Len(purls)
    /\ submitted' = Append(submitted, manifest)
    /\ pc' = "done"
    /\ UNCHANGED <<env, error, parseVars, submodules, tasks, arrival, purls,
                   modulesCache, k, manifest>>

Next ==
    \/ ManifestNotFound
    \/ ReadManifest
    \/ ParseLine
    \/ Dispatch
    \/ \E j \in DOMAIN tasks : DescribeExit(j)
    \/ \E j \in DOMAIN tasks : RevParseExit(j)
    \/ Join
    \/ ProcessUrls
    \/ BuildCache
    \/ ForEachPurl
    \/ Submit

Spec == Init /\ [][Next]_vars


(***************************************************************************)
(* Properties                                                              *)
(***************************************************************************)

\* the loop of lines 155-182 has ended
ParseDone == pc \notin {"start", "parse"} /\ error # "ManifestNotFound"

\* parseSubmoduleManifest has returned to main
AfterJoin ==
    \/ pc \in {"purls", "cache", "forEach", "done"}
    \/ /\ pc = "aborted"
       /\ error \in {"IncompleteSubmodule", "TypeError", "UnsupportedHost",
                     "AssertionFailed"}

\* what the parser is to make of a complete section
RecordOf(sec) ==
    [name |-> sec.name, path |-> sec.path, url |-> sec.url]

BaseOf(sub) == [name |-> sub.name, path |-> sub.path, url |-> sub.url]

BasesOf(subs) == [j \in DOMAIN subs |-> BaseOf(subs[j])]

WellFormed(secs) == \A j \in DOMAIN secs : Complete(secs[j])

\* C1: a manifest of N complete sections is parsed into exactly N records,
\* in the order of the sections, each with the non-empty name, path and
\* url of its own section.
C1_OneRecordPerSection ==
    (ParseDone /\ WellFormed(env.sections)) =>
        /\ Len(submodules) = Len(env.sections)
        /\ \A j \in DOMAIN submodules :
              /\ BaseOf(submodules[j]) = RecordOf(env.sections[j])
              /\ submodules[j].name # ""
              /\ submodules[j].path # ""
              /\ submodules[j].url # ""

C1_Witness ==
    /\ pc = "await"
    /\ Len(env.sections) = 3
    /\ WellFormed(env.sections)
    /\ env.sections[1].urlFirst
    /\ env.sections[2].branch
    /\ Len(submodules) = 3
    /\ submodules[3].name = "dep-a"

\* C2: a section without its path line or without its url line yields no
\* record, in the middle of the file or at its end; the records of the
\* complete sections are emitted unchanged and no record has fields of
\* two sections.
C2_IncompleteSectionDropped ==
    ParseDone =>
        BasesOf(submodules) =
            LET kept == SelectSeq(env.sections, Complete)
            IN  [j \in DOMAIN kept |-> RecordOf(kept[j])]

\* what git yields as the version of the working tree at cwd
VersionAt(cwd) ==
    IF env.worktrees[cwd] = "tagged" THEN TagOf(cwd)
    ELSE IF env.worktrees[cwd] = "silent" THEN ""
    ELSE ShaOf(cwd)

\* C3: whatever the order in which the resolutions complete, after the
\* join record j carries the version resolved for the path of record j,
\* and so does the coordinate derived from it.
C3_VersionsByIndex ==
    AfterJoin =>
        /\ \A j \in DOMAIN submodules :
              submodules[j].tag = VersionAt(Normalize(submodules[j].path))
        /\ \A j \in DOMAIN purls :
              purls[j].version = VersionAt(Normalize(submodules[j].path))

C3_Witness ==
    /\ pc = "cache"
    /\ Len(purls) = 3
    /\ arrival = <<3, 1, 2>>
    /\ purls[1].version # purls[2].version
    /\ purls[2].version # purls[3].version
    /\ purls[1].version # purls[3].version
    /\ Len(tasks[1].execs) = 2

\* C4: when `git describe --tags` ends with a non-zero status the
\* resolver runs `git rev-parse --short HEAD` in the same path and returns
\* its output when that succeeds; it fails only when the hash command ends
\* with a non-zero status too, and it never runs the hash command after a
\* successful tag command.
C4_FallsBackToHash ==
    \A j \in DOMAIN tasks :
        LET t == tasks[j]
        IN  /\ t.state = "rejected" =>
                  /\ Len(t.execs) = 2
                  /\ t.execs[2].cmd = "rev-parse"
                  /\ t.execs[2].exitCode # 0
            /\ (t.state = "fulfilled" /\ t.execs[1].exitCode # 0) =>
                  /\ Len(t.execs) = 2
                  /\ t.execs[2].cmd = "rev-parse"
                  /\ t.stdout = ShaOf(t.cwd)
            /\ (t.execs # <<>> /\ t.execs[1].exitCode = 0) =>
                  Len(t.execs) = 1

\* C5: submitSnapshot is called at most once and only by a run in which
\* nothing failed; a run that failed submits nothing; the manifest
\* submitted has a dependency for every record of the parser.
C5_SubmitOnlyAfterSuccess ==
    /\ Len(submitted) <= 1
    /\ (error # "" \/ pc = "aborted"
            \/ \E j \in DOMAIN tasks : tasks[j].state = "rejected")
          => submitted = <<>>
    /\ submitted # <<>> =>
          /\ pc = "done"
          /\ AllFulfilled(tasks)
          /\ Len(tasks) = Len(submodules)
          /\ \A j \in DOMAIN submodules :
                LET r == processSubmodule(submodules[j])
                IN  /\ r.error = ""
                    /\ PurlKey(r.purl) \in DOMAIN submitted[1]
                    /\ submitted[1][PurlKey(r.purl)].package = r.purl

C5_Witness ==
    /\ submitted # <<>>
    /\ Len(submodules) = 3
    /\ Cardinality(DOMAIN submitted[1]) = 3

\* C6: every coordinate processSubmoduleUrls returns for a record set is
\* found in the cache processSubmoduleCache builds from the same set, so
\* main never throws its assertion.
C6_LookupNeverAbsent ==
    /\ error # "AssertionFailed"
    /\ pc \in {"forEach", "done"} =>
          \A j \in DOMAIN purls : Found(modulesCache, purls[j])
    /\ AfterJoin =>
          LET u == processSubmoduleUrls(submodules)
              c == processSubmoduleCache(submodules)
          IN  u.error = "" =>
                 /\ c.error = ""
                 /\ \A j \in DOMAIN u.purls : Found(c.cache, u.purls[j])

C6_Witness ==
    /\ pc = "forEach"
    /\ k = 2
    /\ Len(purls) = 2
    /\ purls[1] = purls[2]
    /\ Cardinality(DOMAIN modulesCache) = 1

\* the names of a comma-separated list
CommaNames(list) ==
    LET names == Split(list, ",")
    IN  {Trim(names[j]) : j \in DOMAIN names} \ {""}

\* C7: a dependency of the final listing has scope development exactly
\* when its name is one of the names of the comma-separated
\* development-deps input, and scope runtime otherwise.
C7_ScopeByListedName ==
    \A key \in DOMAIN manifest :
        manifest[key].scope = "development" <=>
            manifest[key].package.name \in CommaNames(env.developmentDeps)

\* the hosting domain of a url: what follows scheme//, or what stands
\* between "@" and ":" in the scp-like form user@host:path
HostOf(url) ==
    LET parts == Split(url, "/")
        user  == Split(parts[1], "@")
    IN  IF Len(parts) >= 3 /\ parts[2] = "" THEN parts[3]
        ELSE IF Len(user) = 2 THEN Split(user[2], ":")[1]
        ELSE ""

CompleteRecord(sub) ==
    sub.name # "" /\ sub.path # "" /\ sub.url # "" /\ sub.tag # ""

\* C8: for a complete record whose url is of another host than github.com
\* processSubmodule fails with UnsupportedHost and with nothing else,
\* whatever the number of segments of the url.
C8_OtherHostIsUnsupported ==
    AfterJoin =>
        \A j \in DOMAIN submodules :
            (CompleteRecord(submodules[j])
                /\ HostOf(submodules[j].url) # "github.com")
              => processSubmodule(submodules[j]).error = "UnsupportedHost"

\* a repository segment without its last "."-delimited extension
StripExtension(repo) ==
    LET parts == Split(repo, ".")
    IN  IF Len(parts) = 1 THEN repo
        ELSE JoinStrings(SubSeq(parts, 1, Len(parts) - 1), ".")

\* a url of the form scheme//github.com/<namespace>/<repo>[.<ext>]
GithubUrl(url) ==
    LET parts == Split(url, "/")
    IN  /\ Len(parts) = 5
        /\ parts[2] = ""
        /\ parts[3] = "github.com"
        /\ parts[4] # ""
        /\ StripExtension(parts[5]) # ""

\* C9: for a complete record with a github.com url processSubmodule
\* returns the coordinate of type github, the namespace of the url, the
\* repository name without its trailing extension only, and the version of
\* the record unchanged.
C9_CoordinateOfGithubUrl ==
    AfterJoin =>
        \A j \in DOMAIN submodules :
            LET sub   == submodules[j]
                parts == Split(sub.url, "/")
            IN  (CompleteRecord(sub) /\ GithubUrl(sub.url)) =>
                    processSubmodule(sub) =
                        [error |-> "",
                         purl  |-> PackageURL("github", parts[4],
                                              StripExtension(parts[5]),
                                              sub.tag)]

\* C10: coordinates are derived and the index is built only after every
\* resolution was fulfilled and its version written to its record; when a
\* resolution fails no coordinate is derived at all.
C10_JoinBeforeDerivation ==
    /\ (AfterJoin \/ purls # <<>> \/ modulesCache # <<>>) =>
          /\ AllFulfilled(tasks)
          /\ Len(tasks) = Len(submodules)
          /\ \A j \in DOMAIN submodules :
                /\ tasks[j].state = "fulfilled"
                /\ submodules[j].tag = tasks[j].stdout
    /\ (\E j \in DOMAIN tasks : tasks[j].state = "rejected") =>
          /\ pc = "aborted"
          /\ error \in {"ExecRejected", "VersionResolutionFailed"}
          /\ purls = <<>>
          /\ modulesCache = <<>>
          /\ manifest = <<>>

C10_Witness ==
    /\ pc = "forEach"
    /\ Len(purls) = 3
    /\ arrival = <<2, 3, 1>>
    /\ Len(tasks[2].execs) = 2

=============================================================================
